---- MODULE Spec2Model ----
(***************************************************************************)
(* Model of merge_cidades.py: the column-name normaliser, the target-field *)
(* resolver, the one-decimal value formatter and the merge pipeline        *)
(* (main) that drives them.                                                *)
(*                                                                         *)
(* A Python str is a sequence of one-character tokens.  ASCII characters   *)
(* are themselves; a non-ASCII character is the token "U+XXXX" of its code *)
(* point.                                                                  *)
(***************************************************************************)
EXTENDS Integers, Sequences, FiniteSets, TLC

(***************************************************************************)
(* Bounds of the model.                                                    *)
(***************************************************************************)
MaxLen == 5

MaxCols == 3

MaxHundredths == 1260

MaxFiles == 2

VARIABLES
    \* Spec, the run of main(): the statement main is at
    pc,
    \* the file system: whether dados_cidades is a directory, the *.csv files in
    \* it (in glob order), whether output/dados_processados exists, and
    \* merged_cidades.csv
    dir_exists, folder_csvs, out_folder_exists, output_file_exists, output_file,
    \* the locals of main
    csv_files, dfs, combined, target_bases, cidade_col, data_col,
    \* combined as it was when the sort block was entered, and the branch the
    \* sort block took
    unsorted, sort_branch,
    \* what the process printed, the exception that ended it, its exit status
    stdout, traceback, exit_status,
    \* SpecNorm: normalize_colname applied to a string, then to its own result
    norm_pc, norm_in, norm_out, norm_twice,
    \* SpecResolve: the target_bases loop over a list of normalized column names
    res_pc, res_cols, res_i,
    \* SpecFormat: round(1), format_until_one_decimal, and float() of the result
    fmt_pc, fmt_in, fmt_rounded, fmt_out, fmt_parsed

norm_vars == <<norm_pc, norm_in, norm_out, norm_twice>>

res_vars == <<res_pc, res_cols, res_i>>

fmt_vars == <<fmt_pc, fmt_in, fmt_rounded, fmt_out, fmt_parsed>>

pipe_vars ==
    <<pc, dir_exists, folder_csvs, out_folder_exists, output_file_exists, output_file,
      csv_files, dfs, combined, cidade_col, data_col, unsorted, sort_branch,
      stdout, traceback, exit_status>>

vars == <<pipe_vars, target_bases, norm_vars, res_vars, fmt_vars>>

(***************************************************************************)
(* Character data (unicodedata, str.lower, str.isalnum, str.strip) for the *)
(* characters the model uses.                                              *)
(***************************************************************************)
LowerAscii == {"a","b","c","d","e","f","g","h","i","j","k","l","m",
               "n","o","p","q","r","s","t","u","v","w","x","y","z"}

UpperAscii == {"A","B","C","D","E","F","G","H","I","J","K","L","M",
               "N","O","P","Q","R","S","T","U","V","W","X","Y","Z"}

Digits == {"0","1","2","3","4","5","6","7","8","9"}

\* U+0301 COMBINING ACUTE ACCENT, U+0303 COMBINING TILDE, U+0327 COMBINING CEDILLA
CombiningMarks == {"U+0301", "U+0303", "U+0327"}

\* characters str.strip() removes
Whitespace == {" ", "\t"}

AsciiLower == [c \in UpperAscii |->
                 CASE c = "A" -> "a" [] c = "B" -> "b" [] c = "C" -> "c" [] c = "D" -> "d"
                   [] c = "E" -> "e" [] c = "F" -> "f" [] c = "G" -> "g" [] c = "H" -> "h"
                   [] c = "I" -> "i" [] c = "J" -> "j" [] c = "K" -> "k" [] c = "L" -> "l"
                   [] c = "M" -> "m" [] c = "N" -> "n" [] c = "O" -> "o" [] c = "P" -> "p"
                   [] c = "Q" -> "q" [] c = "R" -> "r" [] c = "S" -> "s" [] c = "T" -> "t"
                   [] c = "U" -> "u" [] c = "V" -> "v" [] c = "W" -> "w" [] c = "X" -> "x"
                   [] c = "Y" -> "y" [] c = "Z" -> "z"]

\* unicodedata.normalize("NFKD", c) of one character:
\*   U+00C1 (A acute) -> A U+0301      U+00E1 (a acute) -> a U+0301
\*   U+00E3 (a tilde) -> a U+0303      U+00E7 (c cedilla) -> c U+0327
\*   U+00AA (feminine ordinal) -> a    (compatibility decomposition)
\*   every other character of the model is its own decomposition
Decompose(c) ==
    CASE c = "U+00C1" -> <<"A", "U+0301">>
      [] c = "U+00E1" -> <<"a", "U+0301">>
      [] c = "U+00E3" -> <<"a", "U+0303">>
      [] c = "U+00E7" -> <<"c", "U+0327">>
      [] c = "U+00AA" -> <<"a">>
      [] OTHER -> <<c>>

\* unicodedata.combining(c) != 0
IsCombining(c) == c \in CombiningMarks

\* str.lower() of one character
LowerChar(c) ==
    IF c \in UpperAscii THEN AsciiLower[c]
    ELSE IF c = "U+00C1" THEN "U+00E1"
    ELSE c

\* str.isalnum() of one character
IsAlnum(c) ==
    c \in LowerAscii \cup UpperAscii \cup Digits
          \cup {"U+00C1", "U+00E1", "U+00E3", "U+00E7", "U+00AA"}

\* str.isupper() of one character
IsUpper(c) == c \in UpperAscii \cup {"U+00C1"}

(***************************************************************************)
(* String helpers.                                                         *)
(***************************************************************************)
RECURSIVE NFKD(_)
NFKD(s) == IF s = <<>> THEN <<>> ELSE Decompose(Head(s)) \o NFKD(Tail(s))

RECURSIVE DropCombining(_)
DropCombining(s) ==
    IF s = <<>> THEN <<>>
    ELSE IF IsCombining(Head(s)) THEN DropCombining(Tail(s))
    ELSE <<Head(s)>> \o DropCombining(Tail(s))

\* the .lower() call left out
LowerLeftOut(s) == s

Lower(s) == [i \in 1..Len(s) |-> LowerChar(s[i])]

RECURSIVE LStrip(_, _)
LStrip(s, chars) ==
    IF s # <<>> /\ Head(s) \in chars THEN LStrip(Tail(s), chars) ELSE s

RECURSIVE RStrip(_, _)
RStrip(s, chars) ==
    IF s # <<>> /\ s[Len(s)] \in chars
    THEN RStrip(SubSeq(s, 1, Len(s) - 1), chars) ELSE s

Strip(s, chars) == RStrip(LStrip(s, chars), chars)

\* "__" in s
HasDoubleUnderscore(s) ==
    \E i \in 1..(Len(s) - 1) : s[i] = "_" /\ s[i + 1] = "_"

\* s.replace("__", "_"): non-overlapping occurrences, left to right
RECURSIVE ReplaceDouble(_)
ReplaceDouble(s) ==
    IF Len(s) < 2 THEN s
    ELSE IF s[1] = "_" /\ s[2] = "_" THEN <<"_">> \o ReplaceDouble(Tail(Tail(s)))
    ELSE <<s[1]>> \o ReplaceDouble(Tail(s))

\* a single pass of replace("__", "_") instead of the while loop
CollapseOnce(s) == ReplaceDouble(s)

\* while "__" in cleaned_s: cleaned_s = cleaned_s.replace("__", "_")
RECURSIVE Collapse(_)
Collapse(s) == IF HasDoubleUnderscore(s) THEN Collapse(ReplaceDouble(s)) ELSE s

\* for ch in lowered: ch if ch.isalnum() else "_"
Clean(s) == [i \in 1..Len(s) |-> IF IsAlnum(s[i]) THEN s[i] ELSE "_"]

(***************************************************************************)
(* normalize_colname.  Column names come from pandas.read_csv headers and  *)
(* from the literal "__source_file", so they are always str: the           *)
(* isinstance guard never takes its return branch.                         *)
(***************************************************************************)
normalize_colname(col) ==
    LET nfkd == NFKD(col)
        without_accents == DropCombining(nfkd)
        lowered == Strip(Lower(without_accents), Whitespace)
        cleaned_s == Collapse(Clean(lowered))
    IN  Strip(cleaned_s, {"_"})

(***************************************************************************)
(* Python's None.  A str is a sequence of one-character tokens, so the     *)
(* one-element sequence holding the token "None" is no str.                *)
(***************************************************************************)
None == <<"None">>

(***************************************************************************)
(* Target field resolver (main, the target_bases loop).                    *)
(***************************************************************************)
\* "precipitacao"
precipitacao == <<"p","r","e","c","i","p","i","t","a","c","a","o">>

\* "temperatura_maxima"
temperatura_maxima ==
    <<"t","e","m","p","e","r","a","t","u","r","a","_","m","a","x","i","m","a">>

\* "temperatura_maxima_absoluta"
temperatura_maxima_absoluta ==
    <<"t","e","m","p","e","r","a","t","u","r","a","_","m","a","x","i","m","a",
      "_","a","b","s","o","l","u","t","a">>

\* "temperatura_minima"
temperatura_minima ==
    <<"t","e","m","p","e","r","a","t","u","r","a","_","m","i","n","i","m","a">>

\* "temperatura_minima_absoluta"
temperatura_minima_absoluta ==
    <<"t","e","m","p","e","r","a","t","u","r","a","_","m","i","n","i","m","a",
      "_","a","b","s","o","l","u","t","a">>

\* the keys of the target_bases dict
TargetBaseKeys ==
    {precipitacao, temperatura_maxima, temperatura_maxima_absoluta,
     temperatura_minima, temperatura_minima_absoluta}

\* target_bases = {base: None, ...}
EmptyTargetBases == [base \in TargetBaseKeys |-> None]

\* col.startswith(prefix)
StartsWith(col, prefix) ==
    Len(prefix) <= Len(col) /\ SubSeq(col, 1, Len(prefix)) = prefix

\* col.endswith(suffix)
EndsWith(col, suffix) ==
    Len(suffix) <= Len(col)
    /\ SubSeq(col, Len(col) - Len(suffix) + 1, Len(col)) = suffix

\* base in col
Contains(col, base) ==
    \E i \in 0..(Len(col) - Len(base)) : SubSeq(col, i + 1, i + Len(base)) = base

\* col == base or col.startswith(base + "_") or col.endswith("_" + base) or base in col
Matches(col, base) ==
    \/ col = base
    \/ StartsWith(col, base \o <<"_">>)
    \/ EndsWith(col, <<"_">> \o base)
    \/ Contains(col, base)

\* the first match is kept, a later exact match does not replace it
ResolveEntryFirstWins(current, col, base) ==
    IF Matches(col, base) /\ current = None THEN col ELSE current

\* every match replaces the one before it
ResolveEntryLastWins(current, col, base) ==
    IF Matches(col, base) THEN col ELSE current

\* the assignment the inner loop makes for one base on column col
ResolveEntry(current, col, base) ==
    IF Matches(col, base)
    THEN IF current = None THEN col
         ELSE IF col = base THEN col
         ELSE current
    ELSE current

\* one iteration of "for col in combined.columns": the inner loop over the bases
ResolveColumn(tb, col) ==
    [base \in TargetBaseKeys |-> ResolveEntry(tb[base], col, base)]

\* the whole loop over the columns, from the table's first column to its last
RECURSIVE ResolveFrom(_, _)
ResolveFrom(tb, cols) ==
    IF cols = <<>> THEN tb
    ELSE ResolveFrom(ResolveColumn(tb, Head(cols)), Tail(cols))

ResolveTargets(cols) == ResolveFrom(EmptyTargetBases, cols)

(***************************************************************************)
(* Normalized column names the resolver is run on.                         *)
(***************************************************************************)
\* "precipitacao_mm"
precipitacao_mm == <<"p","r","e","c","i","p","i","t","a","c","a","o","_","m","m">>

\* "temperatura_maxima_c"
temperatura_maxima_c ==
    <<"t","e","m","p","e","r","a","t","u","r","a","_","m","a","x","i","m","a","_","c">>

\* "media_temperatura_minima"
media_temperatura_minima ==
    <<"m","e","d","i","a","_","t","e","m","p","e","r","a","t","u","r","a",
      "_","m","i","n","i","m","a">>

\* "cidade"
cidade == <<"c","i","d","a","d","e">>

\* "data"
data == <<"d","a","t","a">>

\* "temp_max"
temp_max == <<"t","e","m","p","_","m","a","x">>

\* "source_file"
source_file == <<"s","o","u","r","c","e","_","f","i","l","e">>

ResolveNames ==
    TargetBaseKeys \cup {precipitacao_mm, temperatura_maxima_c,
                         media_temperatura_minima, temp_max}

SeqsUpTo(S, n) == UNION {[1..k -> S] : k \in 0..n}

(***************************************************************************)
(* Cells of a DataFrame.  A float is held in hundredths (2504 is 25.04).   *)
(*   [k |-> "nan"]            NaN, the missing value                       *)
(*   [k |-> "num", n |-> h]   a number                                     *)
(*   [k |-> "str", s |-> cs]  a str (object dtype)                         *)
(*   [k |-> "date", d |-> d]  a Timestamp, d = yyyymmdd                    *)
(***************************************************************************)
NaN == [k |-> "nan"]

Num(h) == [k |-> "num", n |-> h]

Str(cs) == [k |-> "str", s |-> cs]

Date(d) == [k |-> "date", d |-> d]

Abs(n) == IF n < 0 THEN 0 - n ELSE n

DigitChar(d) ==
    CASE d = 0 -> "0" [] d = 1 -> "1" [] d = 2 -> "2" [] d = 3 -> "3" [] d = 4 -> "4"
      [] d = 5 -> "5" [] d = 6 -> "6" [] d = 7 -> "7" [] d = 8 -> "8" [] d = 9 -> "9"

DigitVal(c) ==
    CASE c = "0" -> 0 [] c = "1" -> 1 [] c = "2" -> 2 [] c = "3" -> 3 [] c = "4" -> 4
      [] c = "5" -> 5 [] c = "6" -> 6 [] c = "7" -> 7 [] c = "8" -> 8 [] c = "9" -> 9

AllDigits(s) == \A i \in 1..Len(s) : s[i] \in Digits

\* int(s) of a string of digits
RECURSIVE NatVal(_)
NatVal(s) ==
    IF s = <<>> THEN 0
    ELSE 10 * NatVal(SubSeq(s, 1, Len(s) - 1)) + DigitVal(s[Len(s)])

\* str(n) of an int n >= 0
RECURSIVE NatStr(_)
NatStr(n) ==
    IF n < 10 THEN <<DigitChar(n)>> ELSE NatStr(n \div 10) \o <<DigitChar(n % 10)>>

(***************************************************************************)
(* float(s) of a str, as format_until_one_decimal calls it, and the parse  *)
(* pd.to_numeric makes of a str cell: an optional "-", digits, and an      *)
(* optional "." followed by one or two digits.  Every other string of the  *)
(* model is not a number (ok = FALSE: float raises, to_numeric coerces).   *)
(***************************************************************************)
ParseNumber(s) ==
    LET neg == s # <<>> /\ s[1] = "-"
        body == IF neg THEN Tail(s) ELSE s
        dots == {i \in 1..Len(body) : body[i] = "."}
        dot == IF dots = {} THEN Len(body) + 1 ELSE CHOOSE i \in dots : TRUE
        ip == SubSeq(body, 1, dot - 1)
        fp == SubSeq(body, dot + 1, Len(body))
        ok == /\ Cardinality(dots) <= 1
              /\ ip # <<>> /\ AllDigits(ip)
              /\ AllDigits(fp)
              /\ (dots # {} => Len(fp) \in {1, 2})
        frac == IF Len(fp) = 1 THEN 10 * NatVal(fp) ELSE NatVal(fp)
        mag == 100 * NatVal(ip) + frac
    IN  IF ok THEN [ok |-> TRUE, n |-> IF neg THEN 0 - mag ELSE mag]
        ELSE [ok |-> FALSE, n |-> 0]

\* pd.to_numeric(..., errors="coerce") of one cell.  Timestamps live only in a
\* column named "data", which matches no target base, so none is coerced.
CoerceCell(v) ==
    CASE v.k = "num" -> v
      [] v.k = "nan" -> NaN
      [] v.k = "str" -> IF ParseNumber(v.s).ok THEN Num(ParseNumber(v.s).n) ELSE NaN

\* round to the nearest tenth, a tie to the even tenth (numpy.round)
Round1(h) ==
    LET q == h \div 10
        r == h % 10
    IN  IF r < 5 THEN 10 * q
        ELSE IF r > 5 THEN 10 * (q + 1)
        ELSE IF q % 2 = 0 THEN 10 * q
        ELSE 10 * (q + 1)

\* Series.round(1) of one cell of a float column
RoundCell(v) == IF v.k = "num" THEN Num(Round1(v.n)) ELSE v

\* str(int(fv)): int(-0.0) is 0
IntStr(n) == IF n < 0 THEN <<"-">> \o NatStr(0 - n) ELSE NatStr(n)

\* f"{fv:.1f}"
Fixed1(h) ==
    LET t == Round1(h) \div 10
        a == Abs(t)
    IN  (IF h < 0 THEN <<"-">> ELSE <<>>)
        \o NatStr(a \div 10) \o <<".">> \o <<DigitChar(a % 10)>>

\* fv.is_integer()
IsInteger(h) == h % 100 = 0

\* the is_integer() branch left out
FormatFloatAlwaysFixed(h) == Fixed1(h)

\* the part of format_until_one_decimal after fv = float(v)
FormatFloat(h) == IF IsInteger(h) THEN IntStr(h \div 100) ELSE Fixed1(h)

\* format_until_one_decimal(v): "" for a missing value; str(v) when float(v)
\* raises, as it does on a str that is no number
format_until_one_decimal(v) ==
    CASE v.k = "nan" -> <<>>
      [] v.k = "num" -> FormatFloat(v.n)
      [] v.k = "str" -> IF ParseNumber(v.s).ok THEN FormatFloat(ParseNumber(v.s).n)
                        ELSE v.s

(***************************************************************************)
(* DataFrames.  A table is [cols |-> the column labels in order,           *)
(* rows |-> the rows in order], each row the sequence of its cells in      *)
(* column order.  Labels may repeat (pandas allows duplicate labels).      *)
(***************************************************************************)
Table(cols, rows) == [cols |-> cols, rows |-> rows]

EmptyTable == Table(<<>>, <<>>)

\* col in df.columns
HasColumn(cols, col) == \E j \in 1..Len(cols) : cols[j] = col

\* how many columns carry the label
LabelCount(cols, col) == Cardinality({j \in 1..Len(cols) : cols[j] = col})

\* position of the first column carrying the label
ColumnIndex(cols, col) ==
    CHOOSE j \in 1..Len(cols) :
        cols[j] = col /\ \A i \in 1..(j - 1) : cols[i] # col

\* df[col], for a label that names one column: its cells, row by row
ColumnValues(df, col) ==
    [r \in 1..Len(df.rows) |-> df.rows[r][ColumnIndex(df.cols, col)]]

\* df[col] = values, for a label that names one column
SetColumn(df, col, values) ==
    Table(df.cols,
          [r \in 1..Len(df.rows) |->
              [j \in 1..Len(df.cols) |->
                  IF df.cols[j] = col THEN values[r] ELSE df.rows[r][j]]])

(***************************************************************************)
(* Input files: the headers and cell values of the CSV files the model     *)
(* puts in dados_cidades.                                                  *)
(***************************************************************************)
\* "__source_file"
SOURCE_FILE == <<"_","_","s","o","u","r","c","e","_","f","i","l","e">>

\* "Cidade"
HdrCidade == <<"C","i","d","a","d","e">>

\* "Data"
HdrData == <<"D","a","t","a">>

\* "Temperatura Maxima (oC)" with U+00E1 a-acute and U+00B0 degree sign
HdrTemperaturaMaxima ==
    <<"T","e","m","p","e","r","a","t","u","r","a"," ","M","U+00E1","x","i","m","a",
      " ","(","U+00B0","C",")">>

\* "Precipitacao (mm)" with U+00E7 c-cedilla and U+00E3 a-tilde
HdrPrecipitacaoMm ==
    <<"P","r","e","c","i","p","i","t","a","U+00E7","U+00E3","o"," ","(","m","m",")">>

\* "Precipitacao" with U+00E7 c-cedilla and U+00E3 a-tilde
HdrPrecipitacao == <<"P","r","e","c","i","p","i","t","a","U+00E7","U+00E3","o">>

\* "Sao Paulo" with U+00E3 a-tilde
SaoPaulo == <<"S","U+00E3","o"," ","P","a","u","l","o">>

\* "Rio"
Rio == <<"R","i","o">>

\* "Belo Horizonte"
BeloHorizonte == <<"B","e","l","o"," ","H","o","r","i","z","o","n","t","e">>

\* "01/01/2020"
D01Jan == <<"0","1","/","0","1","/","2","0","2","0">>

\* "02/01/2020"
D02Jan == <<"0","2","/","0","1","/","2","0","2","0">>

\* "03/01/2020"
D03Jan == <<"0","3","/","0","1","/","2","0","2","0">>

\* "?", a text that is neither a number, a date nor one of read_csv's NA markers
Unknown == <<"?">>

CsvFile(name, cols, rows) == [name |-> name, cols |-> cols, rows |-> rows]

\* a.csv: Cidade, Data, Temperatura Maxima (oC), Precipitacao (mm)
FileA ==
    CsvFile(<<"a",".","c","s","v">>,
            <<HdrCidade, HdrData, HdrTemperaturaMaxima, HdrPrecipitacaoMm>>,
            << <<Str(SaoPaulo), Str(D01Jan), Num(2504), Num(0)>> >>)

\* b.csv: cidade, data, temp_max, precipitacao
FileB ==
    CsvFile(<<"b",".","c","s","v">>,
            <<cidade, data, temp_max, precipitacao>>,
            << <<Str(Rio), Str(D02Jan), Num(3000), Num(555)>> >>)

\* c.csv: cidade, data, temperatura_minima_absoluta; two rows, the later date first
FileC ==
    CsvFile(<<"c",".","c","s","v">>,
            <<cidade, data, temperatura_minima_absoluta>>,
            << <<Str(Rio), Str(D02Jan), Num(1234)>>,
               <<Str(Rio), Str(D01Jan), Num(-325)>> >>)

\* d.csv: cidade, data, temperatura_minima_absoluta, temperatura_minima
FileD ==
    CsvFile(<<"d",".","c","s","v">>,
            <<cidade, data, temperatura_minima_absoluta, temperatura_minima>>,
            << <<Str(BeloHorizonte), Str(D03Jan), Num(987), Num(1555)>> >>)

\* e.csv: Precipitacao, data; no city column, a date that does not parse,
\* a number column read as text because of a "?" cell
FileE ==
    CsvFile(<<"e",".","c","s","v">>,
            <<HdrPrecipitacao, data>>,
            << <<Str(<<"3",".","2","5">>), Str(Unknown)>>,
               <<Str(Unknown), Str(D01Jan)>> >>)

FileCatalogue == {FileA, FileB, FileC, FileD, FileE}

\* the lists glob.glob can return: any files of the catalogue, in any order
FileLists ==
    {fs \in SeqsUpTo(FileCatalogue, MaxFiles) :
        \A i, j \in 1..Len(fs) : i # j => fs[i] # fs[j]}

(***************************************************************************)
(* pd.read_csv(f, parse_dates=["data"], dayfirst=True), its fallback       *)
(* pd.read_csv(f), and df["__source_file"] = os.path.basename(f).          *)
(***************************************************************************)
\* a day-first date dd/mm/yyyy
IsDateText(s) ==
    /\ Len(s) = 10
    /\ s[3] = "/" /\ s[6] = "/"
    /\ \A i \in {1, 2, 4, 5, 7, 8, 9, 10} : s[i] \in Digits

DateValue(s) ==
    10000 * NatVal(SubSeq(s, 7, 10)) + 100 * NatVal(SubSeq(s, 4, 5))
        + NatVal(SubSeq(s, 1, 2))

\* a cell of the "data" column when every cell of the column parses
ParseDateCell(v) == IF v.k = "str" THEN Date(DateValue(v.s)) ELSE v

\* the column parses as dates when each of its cells is a date text or missing
ColumnParsesAsDates(f) ==
    LET j == ColumnIndex(f.cols, data)
    IN  \A r \in 1..Len(f.rows) :
            \/ f.rows[r][j].k = "nan"
            \/ f.rows[r][j].k = "str" /\ IsDateText(f.rows[r][j].s)

\* parse_dates=["data"] raises when the file has no column named "data", and
\* the except branch reads the file again without it; a "data" column that
\* does not parse is left as text
ReadCsv(f) ==
    IF HasColumn(f.cols, data) /\ ColumnParsesAsDates(f)
    THEN SetColumn(Table(f.cols, f.rows), data,
                   [r \in 1..Len(f.rows) |->
                       ParseDateCell(ColumnValues(Table(f.cols, f.rows), data)[r])])
    ELSE Table(f.cols, f.rows)

\* df["__source_file"] = os.path.basename(f): a new last column, or the
\* existing one overwritten
TagSource(df, name) ==
    IF HasColumn(df.cols, SOURCE_FILE)
    THEN Table(df.cols,
               [r \in 1..Len(df.rows) |->
                   [j \in 1..Len(df.cols) |->
                       IF df.cols[j] = SOURCE_FILE THEN Str(name) ELSE df.rows[r][j]]])
    ELSE Table(Append(df.cols, SOURCE_FILE),
               [r \in 1..Len(df.rows) |-> Append(df.rows[r], Str(name))])

\* the loop "for f in csv_files"
ReadAll(files) == [i \in 1..Len(files) |-> TagSource(ReadCsv(files[i]), files[i].name)]

(***************************************************************************)
(* pd.concat(dfs, ignore_index=True, sort=False)                           *)
(***************************************************************************)
\* the labels of cols that are not in seen, in order
RECURSIVE NewLabels(_, _)
NewLabels(seen, cols) ==
    IF cols = <<>> THEN <<>>
    ELSE IF HasColumn(seen, Head(cols)) THEN NewLabels(seen, Tail(cols))
    ELSE <<Head(cols)>> \o NewLabels(Append(seen, Head(cols)), Tail(cols))

\* the union of the frames' columns, in order of first appearance
RECURSIVE UnionColumns(_, _)
UnionColumns(seen, frames) ==
    IF frames = <<>> THEN seen
    ELSE UnionColumns(seen \o NewLabels(seen, Head(frames).cols), Tail(frames))

\* a row of df laid out on cols, NaN where df has no such column
AlignRow(df, r, cols) ==
    [j \in 1..Len(cols) |->
        IF HasColumn(df.cols, cols[j])
        THEN df.rows[r][ColumnIndex(df.cols, cols[j])]
        ELSE NaN]

RECURSIVE ConcatRows(_, _)
ConcatRows(frames, cols) ==
    IF frames = <<>> THEN <<>>
    ELSE [r \in 1..Len(Head(frames).rows) |-> AlignRow(Head(frames), r, cols)]
         \o ConcatRows(Tail(frames), cols)

Concat(frames) ==
    LET cols == UnionColumns(<<>>, frames)
    IN  Table(cols, ConcatRows(frames, cols))

(***************************************************************************)
(* combined.rename(columns=dict(zip(original_cols, normalized_cols))).     *)
(* The original labels are distinct, so each column takes the normalized   *)
(* form of its own label; pandas keeps every column, so two originals with *)
(* one normalized form leave two columns carrying the same label.          *)
(***************************************************************************)
RenameColumns(df) ==
    Table([j \in 1..Len(df.cols) |-> normalize_colname(df.cols[j])], df.rows)

(***************************************************************************)
(* The coerce/round stage and the format stage.                            *)
(***************************************************************************)
\* all five target bases
AllFiveTargets ==
    <<precipitacao, temperatura_maxima, temperatura_maxima_absoluta,
      temperatura_minima, temperatura_minima_absoluta>>

numeric_targets_to_round ==
    <<precipitacao, temperatura_maxima, temperatura_maxima_absoluta, temperatura_minima>>

\* pd.to_numeric(..., errors="coerce") then .round(1), cell by cell
CoerceRoundCell(v) == RoundCell(CoerceCell(v))

\* combined[col] = pd.to_numeric(combined[col], errors="coerce")
\* combined[col] = combined[col].round(1)
CoerceRoundColumn(df, col) ==
    SetColumn(df, col,
              [r \in 1..Len(df.rows) |-> CoerceRoundCell(ColumnValues(df, col)[r])])

\* .apply(format_until_one_decimal), cell by cell: the cell becomes a str
FormatCell(v) == Str(format_until_one_decimal(v))

\* combined[col] = combined[col].apply(format_until_one_decimal)
FormatColumn(df, col) ==
    SetColumn(df, col,
              [r \in 1..Len(df.rows) |-> FormatCell(ColumnValues(df, col)[r])])

\* "if col and col in combined.columns"
Selected(df, col) == col # None /\ col # <<>> /\ HasColumn(df.cols, col)

\* the loop "for base in numeric_targets_to_round" of the coerce/round stage.
\* When the label names more than one column, combined[col] is a DataFrame and
\* pd.to_numeric raises TypeError, which nothing catches.
RECURSIVE CoerceRoundLoop(_, _, _)
CoerceRoundLoop(df, tb, bases) ==
    IF bases = <<>> THEN [raised |-> FALSE, df |-> df]
    ELSE LET col == tb[Head(bases)]
         IN  IF Selected(df, col)
             THEN IF LabelCount(df.cols, col) > 1
                  THEN [raised |-> TRUE, df |-> df]
                  ELSE CoerceRoundLoop(CoerceRoundColumn(df, col), tb, Tail(bases))
             ELSE CoerceRoundLoop(df, tb, Tail(bases))

\* the loop "for base in numeric_targets_to_round" of the format stage.  On a
\* label that names more than one column DataFrame.apply hands whole columns to
\* format_until_one_decimal, whose "if pd.isna(v)" raises ValueError.
RECURSIVE FormatLoop(_, _, _)
FormatLoop(df, tb, bases) ==
    IF bases = <<>> THEN [raised |-> FALSE, df |-> df]
    ELSE LET col == tb[Head(bases)]
         IN  IF Selected(df, col)
             THEN IF LabelCount(df.cols, col) > 1
                  THEN [raised |-> TRUE, df |-> df]
                  ELSE FormatLoop(FormatColumn(df, col), tb, Tail(bases))
             ELSE FormatLoop(df, tb, Tail(bases))

(***************************************************************************)
(* The sort block.                                                         *)
(***************************************************************************)
\* the characters of the model in code point order
CodeOrder ==
    <<"\t", " ", "(", ")", "-", ".", "/",
      "0", "1", "2", "3", "4", "5", "6", "7", "8", "9", "?",
      "A", "B", "C", "D", "E", "F", "G", "H", "I", "J", "K", "L", "M",
      "N", "O", "P", "Q", "R", "S", "T", "U", "V", "W", "X", "Y", "Z", "_",
      "a", "b", "c", "d", "e", "f", "g", "h", "i", "j", "k", "l", "m",
      "n", "o", "p", "q", "r", "s", "t", "u", "v", "w", "x", "y", "z",
      "U+00AA", "U+00B0", "U+00C1", "U+00E1", "U+00E3", "U+00E7",
      "U+0301", "U+0303", "U+0327">>

CodeRank(c) == CHOOSE i \in 1..Len(CodeOrder) : CodeOrder[i] = c

\* a < b for two str
RECURSIVE StrLess(_, _)
StrLess(a, b) ==
    IF b = <<>> THEN FALSE
    ELSE IF a = <<>> THEN TRUE
    ELSE IF Head(a) = Head(b) THEN StrLess(Tail(a), Tail(b))
    ELSE CodeRank(Head(a)) < CodeRank(Head(b))

\* the order sort_values puts two cells of one column in: values ascending,
\* missing values last
CellLess(a, b) ==
    IF a.k = "nan" THEN FALSE
    ELSE IF b.k = "nan" THEN TRUE
    ELSE CASE a.k = "num" -> a.n < b.n
           [] a.k = "date" -> a.d < b.d
           [] a.k = "str" -> StrLess(a.s, b.s)

\* by=[data_col, cidade_col]
RowLessDateFirst(ci, di, r1, r2) ==
    \/ CellLess(r1[di], r2[di])
    \/ ~CellLess(r2[di], r1[di]) /\ CellLess(r1[ci], r2[ci])

\* by=[cidade_col, data_col]: the city decides, the date breaks ties
RowLess(ci, di, r1, r2) ==
    \/ CellLess(r1[ci], r2[ci])
    \/ ~CellLess(r2[ci], r1[ci]) /\ CellLess(r1[di], r2[di])

\* the row goes before the first row that must follow it
RECURSIVE InsertRow(_, _, _, _)
InsertRow(ci, di, sorted, row) ==
    IF sorted = <<>> THEN <<row>>
    ELSE IF RowLess(ci, di, row, Head(sorted)) THEN <<row>> \o sorted
    ELSE <<Head(sorted)>> \o InsertRow(ci, di, Tail(sorted), row)

RECURSIVE SortRowsBy(_, _, _)
SortRowsBy(ci, di, rows) ==
    IF rows = <<>> THEN <<>>
    ELSE InsertRow(ci, di, SortRowsBy(ci, di, SubSeq(rows, 1, Len(rows) - 1)),
                   rows[Len(rows)])

\* the loops "for c in combined.columns: if c == x or x in c: ...; break"
FirstContaining(cols, x) ==
    IF \E j \in 1..Len(cols) : cols[j] = x \/ Contains(cols[j], x)
    THEN cols[CHOOSE j \in 1..Len(cols) :
                  /\ cols[j] = x \/ Contains(cols[j], x)
                  /\ \A i \in 1..(j - 1) : ~(cols[i] = x \/ Contains(cols[i], x))]
    ELSE None

\* the kinds of the values in the columns carrying the label, NaN aside
KindsIn(df, col) ==
    {df.rows[r][j].k : r \in 1..Len(df.rows),
                       j \in {i \in 1..Len(df.cols) : df.cols[i] = col}} \ {"nan"}

\* sort_values raises ValueError on a key label that is not unique and
\* TypeError on a key column whose values do not compare (str with Timestamp,
\* str with float)
SortRaises(df, c, d) ==
    \/ LabelCount(df.cols, c) > 1
    \/ LabelCount(df.cols, d) > 1
    \/ Cardinality(KindsIn(df, c)) > 1
    \/ Cardinality(KindsIn(df, d)) > 1

\* combined.sort_values(by=[cidade_col, data_col]).reset_index(drop=True)
SortValues(df, c, d) ==
    Table(df.cols,
          SortRowsBy(ColumnIndex(df.cols, c), ColumnIndex(df.cols, d), df.rows))

(***************************************************************************)
(* Variables a specification does not use keep these values.               *)
(***************************************************************************)
NormIdle == norm_pc = "idle" /\ norm_in = <<>> /\ norm_out = <<>> /\ norm_twice = <<>>

ResIdle == res_pc = "idle" /\ res_cols = <<>> /\ res_i = 0

FmtIdle ==
    /\ fmt_pc = "idle"
    /\ fmt_in = NaN
    /\ fmt_rounded = NaN
    /\ fmt_out = <<>>
    /\ fmt_parsed = [ok |-> FALSE, n |-> 0]

PipeIdle ==
    /\ pc = "idle"
    /\ dir_exists = FALSE
    /\ folder_csvs = <<>>
    /\ out_folder_exists = FALSE
    /\ output_file_exists = FALSE
    /\ output_file = EmptyTable
    /\ csv_files = <<>>
    /\ dfs = <<>>
    /\ combined = EmptyTable
    /\ cidade_col = None
    /\ data_col = None
    /\ unsorted = EmptyTable
    /\ sort_branch = "none"
    /\ stdout = <<>>
    /\ traceback = "none"
    /\ exit_status = "running"

(***************************************************************************)
(* Specification Spec: one run of main().                                  *)
(***************************************************************************)
Init ==
    /\ pc = "check_dir"
    /\ dir_exists \in BOOLEAN
    /\ folder_csvs \in (IF dir_exists THEN FileLists ELSE {<<>>})
    /\ out_folder_exists \in BOOLEAN
    /\ output_file_exists = FALSE
    /\ output_file = EmptyTable
    /\ csv_files = <<>>
    /\ dfs = <<>>
    /\ combined = EmptyTable
    /\ target_bases = EmptyTargetBases
    /\ cidade_col = None
    /\ data_col = None
    /\ unsorted = EmptyTable
    /\ sort_branch = "none"
    /\ stdout = <<>>
    /\ traceback = "none"
    /\ exit_status = "running"
    /\ NormIdle /\ ResIdle /\ FmtIdle

\* print(...); sys.exit(1)
ExitWith(message) ==
    /\ stdout' = Append(stdout, message)
    /\ exit_status' = "1"
    /\ pc' = "exited"

\* an exception nothing catches: the traceback goes to stderr, the status is 1
Raise(exception) ==
    /\ traceback' = exception
    /\ exit_status' = "1"
    /\ pc' = "exited"

\* if not os.path.isdir(folder): print(...); sys.exit(1)
CheckInputDir ==
    /\ pc = "check_dir"
    /\ IF ~dir_exists
       THEN /\ ExitWith("pasta_nao_encontrada")
       ELSE /\ pc' = "glob"
            /\ UNCHANGED <<stdout, exit_status>>
    /\ UNCHANGED <<dir_exists, folder_csvs, out_folder_exists, output_file_exists,
                   output_file, csv_files, dfs, combined, target_bases, cidade_col,
                   data_col, unsorted, sort_branch, traceback>>
    /\ UNCHANGED <<norm_vars, res_vars, fmt_vars>>

\* the "if not csv_files" exit left out
ListCsvFilesNoExit ==
    /\ pc = "glob"
    /\ csv_files' = folder_csvs
    /\ pc' = "read"
    /\ UNCHANGED <<dir_exists, folder_csvs, out_folder_exists, output_file_exists,
                   output_file, dfs, combined, target_bases, cidade_col,
                   data_col, unsorted, sort_branch, stdout, traceback, exit_status>>
    /\ UNCHANGED <<norm_vars, res_vars, fmt_vars>>

\* csv_files = glob.glob(...); if not csv_files: print(...); sys.exit(1)
ListCsvFiles ==
    /\ pc = "glob"
    /\ csv_files' = folder_csvs
    /\ IF folder_csvs = <<>>
       THEN /\ ExitWith("nenhum_csv")
       ELSE /\ pc' = "read"
            /\ UNCHANGED <<stdout, exit_status>>
    /\ UNCHANGED <<dir_exists, folder_csvs, out_folder_exists, output_file_exists,
                   output_file, dfs, combined, target_bases, cidade_col,
                   data_col, unsorted, sort_branch, traceback>>
    /\ UNCHANGED <<norm_vars, res_vars, fmt_vars>>

\* the loop that reads every file into dfs
ReadCsvFiles ==
    /\ pc = "read"
    /\ dfs' = ReadAll(csv_files)
    /\ pc' = "concat"
    /\ UNCHANGED <<dir_exists, folder_csvs, out_folder_exists, output_file_exists,
                   output_file, csv_files, combined, target_bases, cidade_col,
                   data_col, unsorted, sort_branch, stdout, traceback, exit_status>>
    /\ UNCHANGED <<norm_vars, res_vars, fmt_vars>>

\* combined = pd.concat(dfs, ignore_index=True, sort=False)
ConcatFrames ==
    /\ pc = "concat"
    /\ combined' = Concat(dfs)
    /\ pc' = "rename"
    /\ UNCHANGED <<dir_exists, folder_csvs, out_folder_exists, output_file_exists,
                   output_file, csv_files, dfs, target_bases, cidade_col,
                   data_col, unsorted, sort_branch, stdout, traceback, exit_status>>
    /\ UNCHANGED <<norm_vars, res_vars, fmt_vars>>

\* combined = combined.rename(columns=rename_map)
NormalizeHeader ==
    /\ pc = "rename"
    /\ combined' = RenameColumns(combined)
    /\ pc' = "resolve"
    /\ UNCHANGED <<dir_exists, folder_csvs, out_folder_exists, output_file_exists,
                   output_file, csv_files, dfs, target_bases, cidade_col,
                   data_col, unsorted, sort_branch, stdout, traceback, exit_status>>
    /\ UNCHANGED <<norm_vars, res_vars, fmt_vars>>

\* the target_bases loop, then the mapping is printed
ResolveTargetBases ==
    /\ pc = "resolve"
    /\ target_bases' = ResolveTargets(combined.cols)
    /\ stdout' = Append(stdout, "mapeamento")
    /\ pc' = "coerce"
    /\ UNCHANGED <<dir_exists, folder_csvs, out_folder_exists, output_file_exists,
                   output_file, csv_files, dfs, combined, cidade_col,
                   data_col, unsorted, sort_branch, traceback, exit_status>>
    /\ UNCHANGED <<norm_vars, res_vars, fmt_vars>>

\* the to_numeric / round(1) loop
CoerceAndRound ==
    /\ pc = "coerce"
    /\ LET got == CoerceRoundLoop(combined, target_bases, numeric_targets_to_round)
       IN  IF got.raised
           THEN /\ Raise("TypeError")
                /\ UNCHANGED combined
           ELSE /\ combined' = got.df
                /\ pc' = "format"
                /\ UNCHANGED <<traceback, exit_status>>
    /\ UNCHANGED <<dir_exists, folder_csvs, out_folder_exists, output_file_exists,
                   output_file, csv_files, dfs, target_bases, cidade_col,
                   data_col, unsorted, sort_branch, stdout>>
    /\ UNCHANGED <<norm_vars, res_vars, fmt_vars>>

\* the .apply(format_until_one_decimal) loop
FormatColumns ==
    /\ pc = "format"
    /\ LET got == FormatLoop(combined, target_bases, numeric_targets_to_round)
       IN  IF got.raised
           THEN /\ Raise("ValueError")
                /\ UNCHANGED combined
           ELSE /\ combined' = got.df
                /\ pc' = "sort"
                /\ UNCHANGED <<traceback, exit_status>>
    /\ UNCHANGED <<dir_exists, folder_csvs, out_folder_exists, output_file_exists,
                   output_file, csv_files, dfs, target_bases, cidade_col,
                   data_col, unsorted, sort_branch, stdout>>
    /\ UNCHANGED <<norm_vars, res_vars, fmt_vars>>

\* the sort block: find the two columns, then try: sort_values except: pass
SortRows ==
    /\ pc = "sort"
    /\ cidade_col' = FirstContaining(combined.cols, cidade)
    /\ data_col' = FirstContaining(combined.cols, data)
    /\ unsorted' = combined
    /\ IF cidade_col' # None /\ cidade_col' # <<>> /\ data_col' # None /\ data_col' # <<>>
       THEN IF SortRaises(combined, cidade_col', data_col')
            THEN /\ sort_branch' = "except"
                 /\ UNCHANGED combined
            ELSE /\ sort_branch' = "sorted"
                 /\ combined' = SortValues(combined, cidade_col', data_col')
       ELSE /\ sort_branch' = "skipped"
            /\ UNCHANGED combined
    /\ pc' = "makedirs"
    /\ UNCHANGED <<dir_exists, folder_csvs, out_folder_exists, output_file_exists,
                   output_file, csv_files, dfs, target_bases, stdout, traceback,
                   exit_status>>
    /\ UNCHANGED <<norm_vars, res_vars, fmt_vars>>

\* os.makedirs(out_folder, exist_ok=True), outside the try: it returns when the
\* folder exists or can be made, and raises OSError otherwise (a file in the
\* way, no permission)
MakeOutputFolder ==
    /\ pc = "makedirs"
    /\ \E made \in BOOLEAN :
          IF out_folder_exists \/ made
          THEN /\ out_folder_exists' = TRUE
               /\ pc' = "write"
               /\ UNCHANGED <<traceback, exit_status>>
          ELSE /\ Raise("OSError")
               /\ UNCHANGED out_folder_exists
    /\ UNCHANGED <<dir_exists, folder_csvs, output_file_exists,
                   output_file, csv_files, dfs, combined, target_bases, cidade_col,
                   data_col, unsorted, sort_branch, stdout>>
    /\ UNCHANGED <<norm_vars, res_vars, fmt_vars>>

\* try: combined.to_csv(output_file, index=False); print(...)
\* except Exception as e: print(...); sys.exit(1)
\* A write that fails may or may not have created the file.
WriteCsv ==
    /\ pc = "write"
    /\ \E written \in BOOLEAN, created \in BOOLEAN :
          IF written
          THEN /\ output_file_exists' = TRUE
               /\ output_file' = combined
               /\ stdout' = Append(stdout, "arquivo_salvo")
               /\ exit_status' = "0"
               /\ pc' = "done"
          ELSE /\ output_file_exists' = created
               /\ UNCHANGED output_file
               /\ ExitWith("erro_ao_salvar")
    /\ UNCHANGED <<dir_exists, folder_csvs, out_folder_exists,
                   csv_files, dfs, combined, target_bases, cidade_col,
                   data_col, unsorted, sort_branch, traceback>>
    /\ UNCHANGED <<norm_vars, res_vars, fmt_vars>>

Next ==
    \/ CheckInputDir
    \/ ListCsvFiles
    \/ ReadCsvFiles
    \/ ConcatFrames
    \/ NormalizeHeader
    \/ ResolveTargetBases
    \/ CoerceAndRound
    \/ FormatColumns
    \/ SortRows
    \/ MakeOutputFolder
    \/ WriteCsv

Spec == Init /\ [][Next]_vars

(***************************************************************************)
(* Specification SpecNorm: normalize_colname applied to every string over  *)
(* NormAlphabet up to MaxLen, then applied again to its own result.        *)
(***************************************************************************)
NormAlphabet == {"a", "A", "U+00C1", "U+0301", " ", "_", "("}

NormInit ==
    /\ norm_pc = "input"
    /\ norm_in \in SeqsUpTo(NormAlphabet, MaxLen)
    /\ norm_out = <<>>
    /\ norm_twice = <<>>
    /\ target_bases = EmptyTargetBases
    /\ PipeIdle /\ ResIdle /\ FmtIdle

NormalizeOnce ==
    /\ norm_pc = "input"
    /\ norm_out' = normalize_colname(norm_in)
    /\ norm_pc' = "once"
    /\ UNCHANGED <<norm_in, norm_twice>>
    /\ UNCHANGED <<pipe_vars, target_bases, res_vars, fmt_vars>>

NormalizeTwice ==
    /\ norm_pc = "once"
    /\ norm_twice' = normalize_colname(norm_out)
    /\ norm_pc' = "twice"
    /\ UNCHANGED <<norm_in, norm_out>>
    /\ UNCHANGED <<pipe_vars, target_bases, res_vars, fmt_vars>>

NormNext == NormalizeOnce \/ NormalizeTwice

SpecNorm == NormInit /\ [][NormNext]_vars

(***************************************************************************)
(* Specification SpecResolve: the target_bases loop, one column per step,  *)
(* over every list of up to MaxCols names of ResolveNames.                 *)
(***************************************************************************)
ResolveInit ==
    /\ res_pc = "loop"
    /\ res_cols \in SeqsUpTo(ResolveNames, MaxCols)
    /\ res_i = 0
    /\ target_bases = EmptyTargetBases
    /\ PipeIdle /\ NormIdle /\ FmtIdle

\* one iteration of "for col in combined.columns"
ResolveStep ==
    /\ res_pc = "loop"
    /\ res_i < Len(res_cols)
    /\ target_bases' = ResolveColumn(target_bases, res_cols[res_i + 1])
    /\ res_i' = res_i + 1
    /\ UNCHANGED <<res_pc, res_cols>>
    /\ UNCHANGED <<pipe_vars, norm_vars, fmt_vars>>

\* the loop ends
ResolveEnd ==
    /\ res_pc = "loop"
    /\ res_i = Len(res_cols)
    /\ res_pc' = "done"
    /\ UNCHANGED <<res_cols, res_i, target_bases>>
    /\ UNCHANGED <<pipe_vars, norm_vars, fmt_vars>>

ResolveNext == ResolveStep \/ ResolveEnd

SpecResolve == ResolveInit /\ [][ResolveNext]_vars

(***************************************************************************)
(* Specification SpecFormat: a cell is rounded to one decimal, formatted,  *)
(* and the string is read back as a number.                                *)
(***************************************************************************)
FormatInit ==
    /\ fmt_pc = "input"
    /\ fmt_in \in {NaN} \cup {Num(h) : h \in (0 - MaxHundredths)..MaxHundredths}
    /\ fmt_rounded = NaN
    /\ fmt_out = <<>>
    /\ fmt_parsed = [ok |-> FALSE, n |-> 0]
    /\ target_bases = EmptyTargetBases
    /\ PipeIdle /\ NormIdle /\ ResIdle

\* combined[col].round(1)
RoundValue ==
    /\ fmt_pc = "input"
    /\ fmt_rounded' = RoundCell(fmt_in)
    /\ fmt_pc' = "rounded"
    /\ UNCHANGED <<fmt_in, fmt_out, fmt_parsed>>
    /\ UNCHANGED <<pipe_vars, target_bases, norm_vars, res_vars>>

\* format_until_one_decimal(v)
FormatValue ==
    /\ fmt_pc = "rounded"
    /\ fmt_out' = format_until_one_decimal(fmt_rounded)
    /\ fmt_pc' = "formatted"
    /\ UNCHANGED <<fmt_in, fmt_rounded, fmt_parsed>>
    /\ UNCHANGED <<pipe_vars, target_bases, norm_vars, res_vars>>

\* float(s) of the formatted string
ParseBack ==
    /\ fmt_pc = "formatted"
    /\ fmt_parsed' = ParseNumber(fmt_out)
    /\ fmt_pc' = "parsed"
    /\ UNCHANGED <<fmt_in, fmt_rounded, fmt_out>>
    /\ UNCHANGED <<pipe_vars, target_bases, norm_vars, res_vars>>

FormatNext == RoundValue \/ FormatValue \/ ParseBack

SpecFormat == FormatInit /\ [][FormatNext]_vars

(***************************************************************************)
(* Properties.                                                             *)
(***************************************************************************)

\* C1: normalize_colname is idempotent: applied to its own result it returns
\* that result unchanged.
NormalizeIdempotent == norm_pc = "twice" => norm_twice = norm_out

\* a name the first application changed and did not empty, normalized twice
NormalizeIdempotentWitness ==
    /\ norm_pc = "twice"
    /\ norm_out # norm_in
    /\ norm_out # <<>>
    /\ \E i \in 1..Len(norm_in) : norm_in[i] = "_"

\* a character that is a lowercase or caseless alphanumeric carrying no accent
PlainAlnum(c) ==
    /\ IsAlnum(c)
    /\ ~IsUpper(c)
    /\ ~IsCombining(c)
    /\ Decompose(c) = <<c>>

\* C2: the result of normalize_colname has no leading, trailing or doubled
\* underscore, no uppercase letter and no accented character: each character is
\* a plain lowercase or caseless alphanumeric, or one underscore between two
\* alphanumerics.
NormalizedShape ==
    norm_pc \in {"once", "twice"} =>
        \A i \in 1..Len(norm_out) :
            IF norm_out[i] = "_"
            THEN /\ 1 < i /\ i < Len(norm_out)
                 /\ PlainAlnum(norm_out[i - 1])
                 /\ PlainAlnum(norm_out[i + 1])
            ELSE PlainAlnum(norm_out[i])

\* an input with an accented capital, an edge underscore and an inner separator
NormalizedShapeWitness ==
    /\ norm_pc = "once"
    /\ Len(norm_in) >= 3
    /\ norm_in[1] = "_"
    /\ \E i \in 1..Len(norm_in) : norm_in[i] = "U+00C1"
    /\ \E i \in 1..Len(norm_out) : norm_out[i] = "_"

\* the column the claim names for a base on a list of columns: the base itself
\* when a column equals it, else the first column containing it, else None
ExpectedResolution(cols, base) ==
    IF \E j \in 1..Len(cols) : cols[j] = base THEN base
    ELSE IF \E j \in 1..Len(cols) : Contains(cols[j], base)
    THEN cols[CHOOSE j \in 1..Len(cols) :
                  /\ Contains(cols[j], base)
                  /\ \A i \in 1..(j - 1) : ~Contains(cols[i], base)]
    ELSE None

\* C3: after any number of columns scanned, each of the five bases maps to the
\* column equal to the base if one was scanned, else to the first scanned column
\* containing the base, else to None; so an exact match is never displaced by a
\* partial one and a partial match only by an exact one.
ResolverPrefersExact ==
    res_pc \in {"loop", "done"} =>
        \A base \in TargetBaseKeys :
            target_bases[base] = ExpectedResolution(SubSeq(res_cols, 1, res_i), base)

\* a partial match scanned first, the exact match after it, and the exact match
\* recorded at the end of the loop
ResolverPrefersExactWitness ==
    /\ res_pc = "done"
    /\ \E base \in TargetBaseKeys :
          \E i, j \in 1..Len(res_cols) :
             /\ i < j
             /\ res_cols[i] # base /\ Contains(res_cols[i], base)
             /\ res_cols[j] = base
             /\ target_bases[base] = base

\* the table as it was before the coerce/round/format stage
BeforeCoercion == RenameColumns(Concat(dfs))

\* every cell of the columns carrying the label is what it was before the stage
ColumnUntouched(col) ==
    \A j \in 1..Len(combined.cols) :
        combined.cols[j] = col =>
            \A r \in 1..Len(combined.rows) :
                combined.rows[r][j] = BeforeCoercion.rows[r][j]

\* every cell of the columns carrying the label is a display string
ColumnReformatted(col) ==
    \A j \in 1..Len(combined.cols) :
        combined.cols[j] = col =>
            \A r \in 1..Len(combined.rows) : combined.rows[r][j].k = "str"

\* the columns resolved for the four rounded targets
RoundedColumns ==
    {target_bases[precipitacao], target_bases[temperatura_maxima],
     target_bases[temperatura_maxima_absoluta], target_bases[temperatura_minima]}

\* C4 as claimed: when the format stage has run, the cells of the column
\* temperatura_minima_absoluta resolves to are unchanged, whatever the columns.
MinimaAbsolutaNeverReformatted ==
    (pc = "sort" /\ target_bases[temperatura_minima_absoluta] # None)
        => ColumnUntouched(target_bases[temperatura_minima_absoluta])

\* C4 as amended: when the format stage has run, the cells of the column
\* temperatura_minima_absoluta resolves to are unchanged unless that column is
\* also the column resolved for one of the four rounded targets, and then they
\* are display strings; a column resolved for none of the four is unchanged.
MinimaAbsolutaReformattedOnlyWhenShared ==
    pc = "sort" =>
        /\ target_bases[temperatura_minima_absoluta] # None =>
              IF target_bases[temperatura_minima_absoluta] \in RoundedColumns
              THEN ColumnReformatted(target_bases[temperatura_minima_absoluta])
              ELSE ColumnUntouched(target_bases[temperatura_minima_absoluta])
        /\ \A j \in 1..Len(combined.cols) :
              combined.cols[j] \notin RoundedColumns => ColumnUntouched(combined.cols[j])

\* a table with both a temperatura_minima and a temperatura_minima_absoluta
\* column, the second holding a number with two decimals, after the format stage
MinimaAbsolutaWitness ==
    /\ pc = "sort"
    /\ target_bases[temperatura_minima] = temperatura_minima
    /\ target_bases[temperatura_minima_absoluta] = temperatura_minima_absoluta
    /\ \E r \in 1..Len(combined.rows) :
          combined.rows[r][ColumnIndex(combined.cols, temperatura_minima_absoluta)]
              = Num(987)

\* C5: a missing value formats to the empty string, a whole number to its
\* integer digits with no decimal point (12.0 -> "12"), any other value rounded
\* to one decimal to digits, a point and one digit (12.3 -> "12.3"); and a
\* non-empty formatted string read back as a number is the rounded value.
FormatOneDecimal ==
    fmt_pc \in {"formatted", "parsed"} =>
        /\ fmt_rounded.k = "nan" => fmt_out = <<>>
        /\ fmt_rounded.k = "num" =>
              LET n == fmt_rounded.n
                  digits == IF n < 0 THEN Tail(fmt_out) ELSE fmt_out
              IN  /\ fmt_out # <<>>
                  /\ n < 0 => fmt_out[1] = "-"
                  /\ IF n % 100 = 0
                     THEN /\ AllDigits(digits)
                          /\ NatVal(digits) * 100 = Abs(n)
                     ELSE /\ Len(digits) >= 3
                          /\ digits[Len(digits) - 1] = "."
                          /\ AllDigits(SubSeq(digits, 1, Len(digits) - 2))
                          /\ digits[Len(digits)] \in Digits
                          /\ NatVal(SubSeq(digits, 1, Len(digits) - 2)) * 100
                               + DigitVal(digits[Len(digits)]) * 10 = Abs(n)
        /\ fmt_rounded = Num(1200) => fmt_out = <<"1", "2">>
        /\ fmt_in = Num(1234) => fmt_out = <<"1", "2", ".", "3">>
        /\ (fmt_pc = "parsed" /\ fmt_out # <<>>) =>
              /\ fmt_parsed.ok
              /\ fmt_parsed.n = fmt_rounded.n

\* 12.34 rounded, formatted as "12.3" and read back
FormatOneDecimalWitness ==
    /\ fmt_pc = "parsed"
    /\ fmt_in = Num(1234)
    /\ fmt_out = <<"1", "2", ".", "3">>
    /\ fmt_parsed = [ok |-> TRUE, n |-> 1230]

\* the two files of the end-to-end scenario, in either glob order
ScenarioFiles == folder_csvs \in {<<FileA, FileB>>, <<FileB, FileA>>}

\* the output row that came from the file
OutputRowOf(f) ==
    CHOOSE r \in 1..Len(output_file.rows) :
        output_file.rows[r][ColumnIndex(output_file.cols, source_file)] = Str(f.name)

\* the output cell of the file's row in the first column carrying the label
OutputCell(f, col) ==
    output_file.rows[OutputRowOf(f)][ColumnIndex(output_file.cols, col)]

\* C6 as claimed: the scenario's output has "25" and "30" in the column resolved
\* for temperatura_maxima, "0" and "5.6" (or "5.5") in the column resolved for
\* precipitacao, and the Rio row before the Sao Paulo row.
ScenarioAsClaimed ==
    (pc = "done" /\ ScenarioFiles) =>
        /\ target_bases[temperatura_maxima] # None
        /\ OutputCell(FileA, target_bases[temperatura_maxima]) = Str(<<"2", "5">>)
        /\ OutputCell(FileB, target_bases[temperatura_maxima]) = Str(<<"3", "0">>)
        /\ target_bases[precipitacao] # None
        /\ OutputCell(FileA, target_bases[precipitacao]) = Str(<<"0">>)
        /\ OutputCell(FileB, target_bases[precipitacao])
              \in {Str(<<"5", ".", "6">>), Str(<<"5", ".", "5">>)}
        /\ OutputRowOf(FileB) < OutputRowOf(FileA)

\* C6 as amended: in the scenario temperatura_maxima resolves to
\* temperatura_maxima_c, which holds "25" for the first file's row and "" for the
\* second's (temp_max matches no base); precipitacao resolves to precipitacao,
\* which holds "" for the first file's row and "5.6" (or "5.5") for the second's;
\* the labels cidade and data each occur twice, the sort raises, and the rows
\* stay in the order the files were read.
ScenarioAsBuilt ==
    (pc = "done" /\ ScenarioFiles) =>
        /\ target_bases[temperatura_maxima] = temperatura_maxima_c
        /\ OutputCell(FileA, temperatura_maxima_c) = Str(<<"2", "5">>)
        /\ OutputCell(FileB, temperatura_maxima_c) = Str(<<>>)
        /\ target_bases[precipitacao] = precipitacao
        /\ OutputCell(FileA, precipitacao) = Str(<<>>)
        /\ OutputCell(FileB, precipitacao)
              \in {Str(<<"5", ".", "6">>), Str(<<"5", ".", "5">>)}
        /\ LabelCount(output_file.cols, cidade) = 2
        /\ LabelCount(output_file.cols, data) = 2
        /\ sort_branch = "except"
        /\ \A i \in 1..Len(folder_csvs) : OutputRowOf(folder_csvs[i]) = i

\* the scenario run to its end, the Sao Paulo file read first
ScenarioWitness ==
    /\ pc = "done"
    /\ folder_csvs = <<FileA, FileB>>
    /\ output_file_exists
    /\ Len(output_file.rows) = 2

\* C7: when dados_cidades does not exist or holds no *.csv file, the run never
\* reaches the stage that makes the output folder or writes the output file, no
\* output file is created, and the run ends with a non-zero status.
NoInputNoOutput ==
    (~dir_exists \/ folder_csvs = <<>>) =>
        /\ pc \in {"check_dir", "glob", "exited"}
        /\ ~output_file_exists
        /\ output_file = EmptyTable
        /\ pc = "exited" => exit_status = "1"

\* an existing folder without CSV files, the run ended
NoInputNoOutputWitness ==
    /\ dir_exists
    /\ folder_csvs = <<>>
    /\ pc = "exited"
    /\ stdout = <<"nenhum_csv">>

\* the run ended with a failure in the persist stage
PersistFailed ==
    /\ pc = "exited"
    /\ sort_branch # "none"

\* C8 as claimed: whenever the persist stage fails, in creating the output
\* folder or in writing the file, the last thing the run printed is the
\* diagnostic of the failure and the status is non-zero.
PersistFailureIsReported ==
    PersistFailed =>
        /\ stdout # <<>>
        /\ stdout[Len(stdout)] = "erro_ao_salvar"
        /\ exit_status = "1"

\* the rows are in (city, date) order: no row must come before an earlier one
InCityDateOrder(df, c, d) ==
    LET ci == ColumnIndex(df.cols, c)
        di == ColumnIndex(df.cols, d)
    IN  \A r1, r2 \in 1..Len(df.rows) :
            r1 < r2 =>
                ~(\/ CellLess(df.rows[r2][ci], df.rows[r1][ci])
                  \/ /\ ~CellLess(df.rows[r1][ci], df.rows[r2][ci])
                     /\ CellLess(df.rows[r2][di], df.rows[r1][di]))

\* the two tables hold the same rows, each as many times
SameRows(df1, df2) ==
    /\ df1.cols = df2.cols
    /\ Len(df1.rows) = Len(df2.rows)
    /\ \A r \in 1..Len(df1.rows) :
          Cardinality({q \in 1..Len(df1.rows) : df1.rows[q] = df1.rows[r]})
              = Cardinality({q \in 1..Len(df2.rows) : df2.rows[q] = df1.rows[r]})

\* name is the first label of cols containing x, or None when no label does
IsFirstLabelWith(name, cols, x) ==
    IF \E j \in 1..Len(cols) : Contains(cols[j], x)
    THEN \E j \in 1..Len(cols) :
            /\ cols[j] = name
            /\ Contains(cols[j], x)
            /\ \A i \in 1..(j - 1) : ~Contains(cols[i], x)
    ELSE name = None

\* C9: the city column is the first column whose name contains "cidade", the
\* date column the first whose name contains "data"; when both exist and the
\* sort succeeds the rows are in (city, date) order; when one is absent or the
\* sort raises the rows keep the concatenation order; in each case the run goes
\* on to the persist stage.
SortIsBestEffort ==
    sort_branch # "none" =>
        /\ IsFirstLabelWith(cidade_col, unsorted.cols, cidade)
        /\ IsFirstLabelWith(data_col, unsorted.cols, data)
        /\ (cidade_col = None \/ data_col = None) <=> sort_branch = "skipped"
        /\ sort_branch = "sorted" =>
              /\ InCityDateOrder(combined, cidade_col, data_col)
              /\ SameRows(combined, unsorted)
        /\ sort_branch \in {"skipped", "except"} => combined = unsorted
        /\ Len(unsorted.rows) = Len(Concat(dfs).rows)
        /\ \A r \in 1..Len(unsorted.rows) :
              \A j \in 1..Len(unsorted.cols) :
                 unsorted.cols[j] \notin RoundedColumns =>
                    unsorted.rows[r][j] = Concat(dfs).rows[r][j]
        /\ pc \in {"makedirs", "write", "done", "exited"}
        /\ traceback \in {"none", "OSError"}

\* a sort that succeeded and moved a row
SortIsBestEffortWitness ==
    /\ sort_branch = "sorted"
    /\ combined.rows # unsorted.rows
    /\ pc = "done"

\* C10 as claimed: once the header is normalized no label occurs twice in the
\* table, and every resolved target names exactly one column.
HeaderHasNoDuplicates ==
    pc \in {"resolve", "coerce", "format", "sort", "makedirs", "write", "done", "exited"} =>
        /\ \A j \in 1..Len(combined.cols) : LabelCount(combined.cols, combined.cols[j]) = 1
        /\ \A base \in TargetBaseKeys :
              target_bases[base] # None => LabelCount(combined.cols, target_bases[base]) = 1

====
